---- MODULE Spec2Model ----
(***************************************************************************)
(* Model of the query and aggregation service of ChatFrontend              *)
(* (src/deployment.sh, the express + sqlite3 server): the Storage Accessor *)
(* all(), the parameter normalizers, the statement builders of the         *)
(* endpoint handlers and the part of the SQLite engine the statements use. *)
(*                                                                         *)
(* Text is a sequence of one-character strings, so that trimming,          *)
(* splitting, quoting, parseInt and LIKE work on characters.               *)
(***************************************************************************)
EXTENDS Integers, Sequences, FiniteSets, TLC

VARIABLES
    dbExists,   \* fs.existsSync(dbPath) for the resolved store path
    tables,     \* names of the tables of the store file
    messages,   \* rows of danmaku_messages, in rowid order
    now,        \* Math.floor(Date.now() / 1000)
    env,        \* process.env.DB_PATH, <<>> when unset
    req,        \* per request: position in its handler, statement, promise, response
    conn,       \* every sqlite3.Database opened so far: owner, users, state
    dash        \* the DYSChat component: refs, displayed state, fetches in flight

vars == <<dbExists, tables, messages, now, env, req, conn, dash>>

(***************************************************************************)
(* Bounds of the model.                                                    *)
(***************************************************************************)
NReq == 2           \* concurrent requests
MaxRows == 2        \* rows of danmaku_messages
MaxKeywordLen == 2  \* characters of the keyword parameter
MaxLimitLen == 3    \* characters of the limit parameter
MaxNameLen == 3     \* characters of the table name
MaxKeywords == 2    \* entries of a repeated keyword parameter
MaxHoursLen == 2    \* characters of the hours parameter
MaxFetches == 2     \* dashboard fetches started
MaxMounts == 2      \* times the effects of the dashboard are run

(***************************************************************************)
(* Program constants.                                                      *)
(***************************************************************************)
RecentFallback == 50
RecentMax == 200
ByUserFallback == 100
ByUserMax == 500
SearchFallback == 100
SearchMax == 500
TopFallback == 10
TopMax == 100
HoursFallback == 24
Hours24 == 24
SecondsPerHour == 3600

(***************************************************************************)
(* Text helpers.                                                           *)
(***************************************************************************)
Digits == <<"0", "1", "2", "3", "4", "5", "6", "7", "8", "9">>

IsDigit(c) == \E i \in 1..10 : Digits[i] = c

DigitVal(c) == (CHOOSE i \in 1..10 : Digits[i] = c) - 1

\* the characters of the model in ASCII order
Ascii ==
    <<" ", "\"", "%", "+", ",", "-", "/",
      "0", "1", "2", "3", "4", "5", "6", "7", "8", "9", ";",
      "A", "B", "_",
      "a", "b", "c", "d", "e", "f", "g", "h", "i", "j", "k", "l", "m",
      "n", "o", "p", "q", "r", "s", "t", "u", "v", "w", "x", "y", "z">>

\* position of a character in the byte order the engine compares text by
Code(c) == CHOOSE i \in 1..Len(Ascii) : Ascii[i] = c

\* ASCII case folding, as sqlite3's NOCASE and LIKE do it
Lower(c) ==
    CASE c = "A" -> "a"
      [] c = "B" -> "b"
      [] OTHER -> c

LowerStr(s) == [i \in 1..Len(s) |-> Lower(s[i])]

\* s < t bytewise (BINARY collation / JS string order)
RECURSIVE TextLess(_, _)
TextLess(s, t) ==
    IF t = <<>> THEN FALSE
    ELSE IF s = <<>> THEN TRUE
    ELSE IF Code(Head(s)) # Code(Head(t)) THEN Code(Head(s)) < Code(Head(t))
    ELSE TextLess(Tail(s), Tail(t))

\* decimal text of a natural number
RECURSIVE DecimalText(_)
DecimalText(n) ==
    IF n < 10 THEN <<Digits[n + 1]>>
    ELSE Append(DecimalText(n \div 10), Digits[(n % 10) + 1])

\* all texts over an alphabet of at most n characters
RECURSIVE TextsUpTo(_, _)
TextsUpTo(alphabet, n) ==
    IF n = 0 THEN {<<>>}
    ELSE LET shorter == TextsUpTo(alphabet, n - 1)
         IN  shorter \cup {Append(s, c) : s \in shorter, c \in alphabet}

(***************************************************************************)
(* Request inputs.  A query parameter is absent or a text; the keyword     *)
(* parameters may also be repeated, which express delivers as an array.    *)
(***************************************************************************)
Absent == [present |-> FALSE, v |-> <<>>]

Given(s) == [present |-> TRUE, v |-> s]

\* JavaScript truthiness of a query parameter: undefined and "" are falsy
Truthy(p) == p.present /\ p.v # <<>>

\* req.query.x || dflt
OrDefault(p, dflt) == IF Truthy(p) THEN p.v ELSE dflt

NoKeyword == [kind |-> "absent", s |-> <<>>, a |-> <<>>]

KeywordString(s) == [kind |-> "string", s |-> s, a |-> <<>>]

KeywordArray(a) == [kind |-> "array", s |-> <<>>, a |-> a]

(***************************************************************************)
(* Path Resolver.                                                          *)
(***************************************************************************)
DEFAULT_DB_PATH == <<"/", "a", "/", "d">>

Cwd == <<"/", "c">>

\* mutant of resolveDbPath: the override is used as it is written
resolveDbPathUnresolved(envPath) ==
    IF envPath # <<>> THEN envPath ELSE DEFAULT_DB_PATH

\* path.resolve(process.cwd(), envPath): an absolute override stands alone
resolveDbPath(envPath) ==
    IF envPath # <<>>
    THEN IF Head(envPath) = "/" THEN envPath ELSE Cwd \o <<"/">> \o envPath
    ELSE DEFAULT_DB_PATH

(***************************************************************************)
(* Query Parameter Normalizer.                                             *)
(***************************************************************************)
NaN == [nan |-> TRUE, v |-> 0]

Num(n) == [nan |-> FALSE, v |-> n]

RECURSIVE SkipSpaces(_)
SkipSpaces(s) ==
    IF s # <<>> /\ Head(s) = " " THEN SkipSpaces(Tail(s)) ELSE s

\* value of the longest prefix of decimal digits of s, continuing from acc
RECURSIVE DigitPrefixValue(_, _)
DigitPrefixValue(s, acc) ==
    IF s # <<>> /\ IsDigit(Head(s))
    THEN DigitPrefixValue(Tail(s), 10 * acc + DigitVal(Head(s)))
    ELSE acc

\* parseInt(s, 10): leading white space, an optional sign, then the longest
\* prefix of digits; NaN when there is no digit
ParseInt(s) ==
    LET t == SkipSpaces(s)
        neg == t # <<>> /\ Head(t) = "-"
        u == IF t # <<>> /\ (Head(t) = "-" \/ Head(t) = "+") THEN Tail(t) ELSE t
    IN  IF u = <<>> \/ ~IsDigit(Head(u)) THEN NaN
        ELSE IF neg THEN Num(0 - DigitPrefixValue(u, 0))
        ELSE Num(DigitPrefixValue(u, 0))

Min(a, b) == IF a < b THEN a ELSE b

\* mutant of parseLimit: the parsed value is returned without the clamp
parseLimitNoClamp(raw, fallback, max) ==
    LET parsed == ParseInt(raw)
    IN  IF parsed.nan \/ parsed.v <= 0 THEN fallback ELSE parsed.v

parseLimit(raw, fallback, max) ==
    LET parsed == ParseInt(raw)
    IN  IF parsed.nan \/ parsed.v <= 0 THEN fallback ELSE Min(parsed.v, max)

\* mutant of parseHours: the parsed value is capped at the fallback
parseHoursCapped(raw, fallback) ==
    LET parsed == ParseInt(raw)
    IN  IF parsed.nan \/ parsed.v <= 0 THEN fallback ELSE Min(parsed.v, fallback)

parseHours(raw, fallback) ==
    LET parsed == ParseInt(raw)
    IN  IF parsed.nan \/ parsed.v <= 0 THEN fallback ELSE parsed.v

\* String.prototype.trim (white space of the model is the blank)
RECURSIVE TrimRight(_)
TrimRight(s) ==
    IF s # <<>> /\ s[Len(s)] = " " THEN TrimRight(SubSeq(s, 1, Len(s) - 1)) ELSE s

Trim(s) == TrimRight(SkipSpaces(s))

\* String.prototype.split(','): cur is the piece being read
RECURSIVE SplitFrom(_, _)
SplitFrom(s, cur) ==
    IF s = <<>> THEN <<cur>>
    ELSE IF Head(s) = "," THEN <<cur>> \o SplitFrom(Tail(s), <<>>)
    ELSE SplitFrom(Tail(s), Append(cur, Head(s)))

SplitCommas(s) == SplitFrom(s, <<>>)

\* mutant of TrimAndDropEmpty: the empty entries are dropped, nothing is
\* trimmed
DropEmptyOnly(ks) == SelectSeq(ks, LAMBDA k : k # <<>>)

\* keywords.map((k) => k.trim()).filter(Boolean)
RECURSIVE TrimAndDropEmpty(_)
TrimAndDropEmpty(ks) ==
    IF ks = <<>> THEN <<>>
    ELSE LET k == Trim(Head(ks))
         IN  IF k = <<>> THEN TrimAndDropEmpty(Tail(ks))
             ELSE <<k>> \o TrimAndDropEmpty(Tail(ks))

\* req.query.keyword ?? req.query.keywords ?? req.query.q
KeywordsRaw(keyword, keywords, q) ==
    IF keyword.kind # "absent" THEN keyword
    ELSE IF keywords.kind # "absent" THEN keywords
    ELSE q

NormalizeKeywords(raw) ==
    TrimAndDropEmpty(
        IF raw.kind = "array" THEN raw.a
        ELSE IF raw.kind = "string" THEN SplitCommas(raw.s)
        ELSE <<>>)

\* mutant of EscapeIdentifier: only the first quote is doubled (replace
\* without the g flag)
RECURSIVE EscapeFirstQuoteOnly(_)
EscapeFirstQuoteOnly(name) ==
    IF name = <<>> THEN <<>>
    ELSE IF Head(name) = "\"" THEN <<"\"", "\"">> \o Tail(name)
    ELSE <<Head(name)>> \o EscapeFirstQuoteOnly(Tail(name))

\* name.replace(/"/g, '""')
RECURSIVE EscapeIdentifier(_)
EscapeIdentifier(name) ==
    IF name = <<>> THEN <<>>
    ELSE IF Head(name) = "\"" THEN <<"\"", "\"">> \o EscapeIdentifier(Tail(name))
    ELSE <<Head(name)>> \o EscapeIdentifier(Tail(name))

\* `${n}` of a number: NaN prints as a word, a negative number with its sign
NumberText(n) ==
    IF n.nan THEN <<"NaN">>
    ELSE IF n.v < 0 THEN <<"-">> \o DecimalText(0 - n.v)
    ELSE DecimalText(n.v)

(***************************************************************************)
(* The store.  A value of the engine is NULL, an integer or a text; a      *)
(* message row keeps created_at as the epoch seconds its stored date-time  *)
(* text denotes, and timestamp as NULL or an integer.                      *)
(***************************************************************************)
Null == [t |-> "null", s |-> <<>>, n |-> 0]

IntV(k) == [t |-> "int", s |-> <<>>, n |-> k]

TextV(x) == [t |-> "text", s |-> x, n |-> 0]

danmaku_messages ==
    <<"d", "a", "n", "m", "a", "k", "u", "_",
      "m", "e", "s", "s", "a", "g", "e", "s">>

Message(id, open_id, uname, msg, room_id, timestamp, created_at) ==
    [id |-> id, open_id |-> open_id, uname |-> uname, msg |-> msg,
     room_id |-> room_id, timestamp |-> timestamp, created_at |-> created_at]

\* storage classes in the engine's sort order: NULL, then numbers, then text
ClassRank(v) == CASE v.t = "null" -> 0 [] v.t = "int" -> 1 [] OTHER -> 2

\* a sorts before b; values of different classes compare by class alone
SqlLess(a, b) ==
    IF ClassRank(a) # ClassRank(b) THEN ClassRank(a) < ClassRank(b)
    ELSE IF a.t = "int" THEN a.n < b.n
    ELSE IF a.t = "text" THEN TextLess(a.s, b.s)
    ELSE FALSE

\* a >= b as a WHERE term: NULL operands make it not true; neither operand
\* (a function result, a bound parameter) has an affinity, so none is converted
SqlGE(a, b) == a.t # "null" /\ b.t # "null" /\ ~SqlLess(a, b)

SqlEq(a, b) == a.t # "null" /\ b.t # "null" /\ a = b

\* x LIKE pattern: % matches any run of characters, _ any one character,
\* every other character itself without regard to ASCII case
RECURSIVE Like(_, _)
Like(pattern, x) ==
    IF pattern = <<>> THEN x = <<>>
    ELSE IF Head(pattern) = "%"
         THEN Like(Tail(pattern), x) \/ (x # <<>> /\ Like(pattern, Tail(x)))
    ELSE IF x = <<>> THEN FALSE
    ELSE IF Head(pattern) = "_" THEN Like(Tail(pattern), Tail(x))
    ELSE Lower(Head(pattern)) = Lower(Head(x)) /\ Like(Tail(pattern), Tail(x))

\* strftime('%s', created_at): the epoch seconds, as text
StrftimeS(created_at) == TextV(DecimalText(created_at))

buildTimestampOrderClause == "COALESCE(timestamp, strftime('%s', created_at))"

\* value of a column or expression of a statement on a row
Eval(expr, row) ==
    CASE expr = "room_id" -> TextV(row.room_id)
      [] expr = "open_id" -> TextV(row.open_id)
      [] expr = "uname" -> TextV(row.uname)
      [] expr = "msg" -> TextV(row.msg)
      [] expr = "COALESCE(timestamp, strftime('%s', created_at))" ->
            IF row.timestamp.t # "null" THEN row.timestamp
            ELSE StrftimeS(row.created_at)
      [] OTHER -> Null

(***************************************************************************)
(* Statements.  The fixed statements are kept by their parts: the terms    *)
(* joined by AND, the group of terms joined by OR, the ORDER BY            *)
(* expression; every term carries one ? placeholder, and LIMIT ? is the    *)
(* last placeholder of the shapes that have one.  The table dump is kept   *)
(* as text, because the request's name is written into it.                 *)
(***************************************************************************)
Term(expr, op) == [expr |-> expr, op |-> op]

Statement(shape, text, conj, disj, order) ==
    [shape |-> shape, text |-> text, conj |-> conj, disj |-> disj, order |-> order]

HasLimitPlaceholder(stmt) == stmt.shape \in {"select", "topUsers"}

Placeholders(stmt) ==
    Len(stmt.conj) + Len(stmt.disj) + (IF HasLimitPlaceholder(stmt) THEN 1 ELSE 0)

\* the i-th bound parameter; a placeholder left unbound is NULL
Param(params, i) == IF i \in 1..Len(params) THEN params[i] ELSE Null

TermHolds(term, row, p) ==
    CASE term.op = "=" -> SqlEq(Eval(term.expr, row), p)
      [] term.op = ">=" -> SqlGE(Eval(term.expr, row), p)
      [] term.op = "LIKE" ->
            Eval(term.expr, row).t = "text" /\ p.t = "text"
            /\ Like(p.s, Eval(term.expr, row).s)
      [] OTHER -> FALSE

\* WHERE: every AND term, and one term of the OR group when there is one
RowQualifies(stmt, params, row) ==
    /\ \A i \in 1..Len(stmt.conj) : TermHolds(stmt.conj[i], row, Param(params, i))
    /\ \/ stmt.disj = <<>>
       \/ \E j \in 1..Len(stmt.disj) :
            TermHolds(stmt.disj[j], row, Param(params, Len(stmt.conj) + j))

(***************************************************************************)
(* Execution of one statement by the engine.                               *)
(***************************************************************************)
Result(msgs, count, top, names) ==
    [msgs |-> msgs, count |-> count, top |-> top, names |-> names]

NoResult == Result(<<>>, 0, <<>>, <<>>)

Outcome(err, out) == [err |-> err, out |-> out]

\* ORDER BY expr DESC; rows that compare equal keep their rowid order (the
\* engine leaves their order open, this is the order a scan in rowid order gives)
RECURSIVE InsertDesc(_, _, _)
InsertDesc(expr, row, sorted) ==
    IF sorted = <<>> THEN <<row>>
    ELSE IF SqlLess(Eval(expr, Head(sorted)), Eval(expr, row)) THEN <<row>> \o sorted
    ELSE <<Head(sorted)>> \o InsertDesc(expr, row, Tail(sorted))

RECURSIVE OrderByDesc(_, _)
OrderByDesc(expr, rows) ==
    IF rows = <<>> THEN <<>>
    ELSE InsertDesc(expr, rows[Len(rows)],
                    OrderByDesc(expr, SubSeq(rows, 1, Len(rows) - 1)))

\* LIMIT n: a negative n is no limit
Take(rows, n) == IF n < 0 THEN rows ELSE SubSeq(rows, 1, Min(n, Len(rows)))

\* OFFSET n: a negative n is 0
Drop(rows, n) == IF n <= 0 THEN rows ELSE SubSeq(rows, Min(n, Len(rows)) + 1, Len(rows))

\* GROUP BY open_id, uname with COUNT(*): one row per pair, first seen first
RECURSIVE GroupCounts(_, _)
GroupCounts(rows, all) ==
    IF rows = <<>> THEN <<>>
    ELSE LET r == Head(rows)
             same(x) == x.open_id = r.open_id /\ x.uname = r.uname
             rest == SelectSeq(Tail(rows), LAMBDA x : ~same(x))
         IN  <<[uname |-> r.uname, open_id |-> r.open_id,
                messageCount |-> Len(SelectSeq(all, same))]>>
             \o GroupCounts(rest, all)

\* ORDER BY messageCount DESC; ties keep the order of the groups
RECURSIVE InsertByCount(_, _)
InsertByCount(g, sorted) ==
    IF sorted = <<>> THEN <<g>>
    ELSE IF Head(sorted).messageCount < g.messageCount THEN <<g>> \o sorted
    ELSE <<Head(sorted)>> \o InsertByCount(g, Tail(sorted))

RECURSIVE OrderByCountDesc(_)
OrderByCountDesc(groups) ==
    IF groups = <<>> THEN <<>>
    ELSE InsertByCount(groups[Len(groups)],
                       OrderByCountDesc(SubSeq(groups, 1, Len(groups) - 1)))

\* SELECT name ... ORDER BY name
RECURSIVE SortNames(_)
SortNames(names) ==
    IF names = {} THEN <<>>
    ELSE LET first == CHOOSE x \in names : \A y \in names \ {x} : TextLess(x, y)
         IN  <<first>> \o SortNames(names \ {first})

\* reads a quoted identifier from the text after its opening quote: a doubled
\* quote is one quote character of the name, a single quote ends it
RECURSIVE ReadQuoted(_, _)
ReadQuoted(s, acc) ==
    IF s = <<>> THEN [ok |-> FALSE, name |-> acc, rest |-> <<>>]
    ELSE IF Head(s) = "\""
         THEN IF Len(s) >= 2 /\ s[2] = "\""
              THEN ReadQuoted(Tail(Tail(s)), Append(acc, "\""))
              ELSE [ok |-> TRUE, name |-> acc, rest |-> Tail(s)]
    ELSE ReadQuoted(Tail(s), Append(acc, Head(s)))

\* an integer literal, with an optional sign
IsIntText(s) ==
    LET u == IF s # <<>> /\ Head(s) = "-" THEN Tail(s) ELSE s
    IN  u # <<>> /\ \A i \in 1..Len(u) : IsDigit(u[i])

\* the parts of SELECT * FROM "<identifier>" LIMIT <n> OFFSET <m>; tail is
\* what follows the identifier's closing quote, wellFormed when it is the
\* LIMIT/OFFSET clause and nothing else
ParseDump(text) ==
    LET id == IF Len(text) >= 2 /\ text[1] = "SELECT * FROM " /\ text[2] = "\""
              THEN ReadQuoted(SubSeq(text, 3, Len(text)), <<>>)
              ELSE [ok |-> FALSE, name |-> <<>>, rest |-> <<>>]
        tail == id.rest
        offs == {k \in 2..Len(tail) : tail[k] = " OFFSET "}
        k == IF offs = {} THEN 0 ELSE CHOOSE x \in offs : \A y \in offs : x <= y
        limitText == IF k = 0 THEN <<>> ELSE SubSeq(tail, 2, k - 1)
        offsetText == IF k = 0 THEN <<>> ELSE SubSeq(tail, k + 1, Len(tail))
    IN  [ok |-> id.ok, name |-> id.name, tail |-> tail,
         wellFormed |-> id.ok /\ tail # <<>> /\ tail[1] = " LIMIT " /\ k # 0
                        /\ Cardinality(offs) = 1,
         limitText |-> limitText, offsetText |-> offsetText]

ExecDump(text, tabs, msgs) ==
    LET d == ParseDump(text)
    IN  IF ~d.wellFormed THEN Outcome(<<"syntax error">>, NoResult)
        ELSE IF d.name \notin tabs THEN Outcome(<<"no such table">>, NoResult)
        ELSE IF ~IsIntText(d.limitText) \/ ~IsIntText(d.offsetText)
             THEN Outcome(<<"no such column">>, NoResult)
        ELSE LET rows == IF d.name = danmaku_messages THEN msgs ELSE <<>>
             IN  Outcome(<<>>, Result(Take(Drop(rows, ParseInt(d.offsetText).v),
                                         ParseInt(d.limitText).v), 0, <<>>, <<>>))

\* db.all(sql, params): the rows, or the engine's error
Exec(stmt, params, tabs, msgs) ==
    LET qualifying == SelectSeq(msgs, LAMBDA row : RowQualifies(stmt, params, row))
        lim == Param(params, Placeholders(stmt))
    IN  IF stmt.shape = "dump" THEN ExecDump(stmt.text, tabs, msgs)
        ELSE IF stmt.shape = "master"
             THEN Outcome(<<>>, Result(<<>>, 0, <<>>,
                    SortNames({x \in tabs :
                        ~Like(<<"s", "q", "l", "i", "t", "e", "_", "%">>, x)})))
        ELSE IF danmaku_messages \notin tabs THEN Outcome(<<"no such table">>, NoResult)
        ELSE IF Len(params) > Placeholders(stmt)
             THEN Outcome(<<"column index out of range">>, NoResult)
        ELSE IF HasLimitPlaceholder(stmt) /\ lim.t # "int"
             THEN Outcome(<<"datatype mismatch">>, NoResult)
        ELSE CASE stmt.shape = "count" ->
                    Outcome(<<>>, Result(<<>>, Len(qualifying), <<>>, <<>>))
               [] stmt.shape = "countDistinct" ->
                    Outcome(<<>>, Result(<<>>,
                        Cardinality({qualifying[i].open_id : i \in 1..Len(qualifying)}),
                        <<>>, <<>>))
               [] stmt.shape = "topUsers" ->
                    Outcome(<<>>, Result(<<>>, 0,
                        Take(OrderByCountDesc(GroupCounts(qualifying, qualifying)), lim.n),
                        <<>>))
               [] stmt.shape = "select" ->
                    Outcome(<<>>, Result(Take(OrderByDesc(stmt.order, qualifying), lim.n),
                                       0, <<>>, <<>>))
               [] OTHER -> Outcome(<<"syntax error">>, NoResult)

(***************************************************************************)
(* Endpoint handlers, up to the call of all(): what each handler decides   *)
(* before its first await.  A plan is an immediate reply (status # 0), a   *)
(* call of all(dbPath, sql, params) (call), or, never in this code, both.  *)
(***************************************************************************)
Inputs(name, limit, offset, roomId, openId, uname, hours, keyword, keywords, q) ==
    [name |-> name, limit |-> limit, offset |-> offset, roomId |-> roomId,
     openId |-> openId, uname |-> uname, hours |-> hours,
     keyword |-> keyword, keywords |-> keywords, q |-> q, db |-> Absent]

NoInputs ==
    Inputs(<<>>, Absent, Absent, Absent, Absent, Absent, Absent,
           NoKeyword, NoKeyword, NoKeyword)

NoStatement == Statement("none", <<>>, <<>>, <<>>, "")

Plan(status, error, path, call, limit, hours, keywords, sql, params) ==
    [status |-> status, error |-> error, path |-> path, call |-> call,
     limit |-> limit, hours |-> hours, keywords |-> keywords,
     sql |-> sql, params |-> params]

\* return res.status(status).json({ error, path })
Reply(status, error, path) ==
    Plan(status, error, path, FALSE, 0, 0, <<>>, NoStatement, <<>>)

\* await all(dbPath, sql, params)
Query(limit, hours, keywords, sql, params) ==
    Plan(0, <<>>, <<>>, TRUE, limit, hours, keywords, sql, params)

\* apiRouter.get('/tables')
TablesPlan(dbPath, exists) ==
    IF ~exists THEN Reply(404, <<"db not found">>, dbPath)
    ELSE Query(0, 0, <<>>, Statement("master", <<>>, <<>>, <<>>, "name"), <<>>)

\* the text of the table-dump statement
DumpText(name, limit, offset) ==
    <<"SELECT * FROM ", "\"">> \o EscapeIdentifier(name) \o <<"\"", " LIMIT ">>
    \o NumberText(limit) \o <<" OFFSET ">> \o NumberText(offset)

\* apiRouter.get('/table/:name')
TableDumpPlan(in, dbPath, exists) ==
    LET limit == ParseInt(OrDefault(in.limit, <<"1", "0", "0">>))
        offset == ParseInt(OrDefault(in.offset, <<"0">>))
    IN  IF ~exists THEN Reply(404, <<"db not found">>, dbPath)
        ELSE Query(0, 0, <<>>,
                   Statement("dump", DumpText(in.name, limit, offset), <<>>, <<>>, ""),
                   <<>>)

\* apiRouter.get('/stats/history-count')
HistoryCountPlan == Query(0, 0, <<>>, Statement("count", <<>>, <<>>, <<>>, ""), <<>>)

\* apiRouter.get('/stats/unique-users')
UniqueUsersPlan ==
    Query(0, 0, <<>>, Statement("countDistinct", <<>>, <<>>, <<>>, ""), <<>>)

\* apiRouter.get('/stats/unique-users-24h')
UniqueUsers24hPlan(t) ==
    LET cutoff == t - Hours24 * SecondsPerHour
    IN  Query(0, 0, <<>>,
              Statement("countDistinct", <<>>,
                        <<Term(buildTimestampOrderClause, ">=")>>, <<>>, ""),
              <<IntV(cutoff)>>)

\* apiRouter.get('/stats/top-users')
TopUsersPlan(in, t) ==
    LET limit == parseLimit(OrDefault(in.limit, <<"1", "0">>), TopFallback, TopMax)
        hours == parseHours(OrDefault(in.hours, <<"2", "4">>), HoursFallback)
        cutoff == t - hours * SecondsPerHour
    IN  Query(limit, hours, <<>>,
              Statement("topUsers", <<>>,
                        <<Term(buildTimestampOrderClause, ">=")>>, <<>>, "messageCount"),
              <<IntV(cutoff), IntV(limit)>>)

\* apiRouter.get('/messages/recent')
RecentPlan(in) ==
    LET limit == parseLimit(OrDefault(in.limit, <<"5", "0">>), RecentFallback, RecentMax)
        clauses == IF Truthy(in.roomId) THEN <<Term("room_id", "=")>> ELSE <<>>
        params == IF Truthy(in.roomId) THEN <<TextV(in.roomId.v)>> ELSE <<>>
    IN  Query(limit, 0, <<>>,
              Statement("select", <<>>, clauses, <<>>, buildTimestampOrderClause),
              Append(params, IntV(limit)))

\* mutant of ByUserWhere: the name is matched whenever it is supplied
ByUserWhereUnameFirst(openId, uname) ==
    IF Truthy(uname)
    THEN [where |-> Term("uname", "LIKE"),
          param |-> TextV(<<"%">> \o uname.v \o <<"%">>)]
    ELSE [where |-> Term("open_id", "="), param |-> TextV(openId.v)]

\* the one predicate of messages-by-user, with its bound value
ByUserWhere(openId, uname) ==
    IF Truthy(openId)
    THEN [where |-> Term("open_id", "="), param |-> TextV(openId.v)]
    ELSE [where |-> Term("uname", "LIKE"),
          param |-> TextV(<<"%">> \o uname.v \o <<"%">>)]

\* apiRouter.get('/messages/by-user')
ByUserPlan(in) ==
    LET limit == parseLimit(OrDefault(in.limit, <<"1", "0", "0">>),
                            ByUserFallback, ByUserMax)
        w == ByUserWhere(in.openId, in.uname)
    IN  IF ~Truthy(in.openId) /\ ~Truthy(in.uname)
        THEN Reply(400, <<"Provide openId or uname query parameter.">>, <<>>)
        ELSE Query(limit, 0, <<>>,
                   Statement("select", <<>>, <<w.where>>, <<>>,
                             buildTimestampOrderClause),
                   <<w.param, IntV(limit)>>)

\* mutant of SearchWhere: the room id is pushed behind the patterns
SearchWhereRoomLast(keywords, roomId) ==
    LET clauses == [i \in 1..Len(keywords) |-> Term("msg", "LIKE")]
        params == [i \in 1..Len(keywords) |->
                      TextV(<<"%">> \o keywords[i] \o <<"%">>)]
    IN  IF Truthy(roomId)
        THEN [conj |-> <<Term("room_id", "=")>>, disj |-> clauses,
              params |-> Append(params, TextV(roomId.v))]
        ELSE [conj |-> <<>>, disj |-> clauses, params |-> params]

\* the WHERE of keyword search with its bound values: one LIKE per keyword
\* joined by OR, the room term put in front of it
SearchWhere(keywords, roomId) ==
    LET clauses == [i \in 1..Len(keywords) |-> Term("msg", "LIKE")]
        params == [i \in 1..Len(keywords) |->
                      TextV(<<"%">> \o keywords[i] \o <<"%">>)]
    IN  IF Truthy(roomId)
        THEN [conj |-> <<Term("room_id", "=")>>, disj |-> clauses,
              params |-> <<TextV(roomId.v)>> \o params]
        ELSE [conj |-> <<>>, disj |-> clauses, params |-> params]

\* mutant of SearchPlan: the emptiness check looks at the list before it is
\* trimmed and filtered
SearchPlanRawCheck(in) ==
    LET limit == parseLimit(OrDefault(in.limit, <<"1", "0", "0">>),
                            SearchFallback, SearchMax)
        raw == KeywordsRaw(in.keyword, in.keywords, in.q)
        keywords == NormalizeKeywords(raw)
        w == SearchWhere(keywords, in.roomId)
    IN  IF raw.kind = "absent" \/ (raw.kind = "array" /\ raw.a = <<>>)
        THEN Reply(400,
                   <<"Provide at least one keyword via keyword, keywords, or q query param.">>,
                   <<>>)
        ELSE Query(limit, 0, keywords,
                   Statement("select", <<>>, w.conj, w.disj, buildTimestampOrderClause),
                   Append(w.params, IntV(limit)))

\* apiRouter.get('/messages/search')
SearchPlan(in) ==
    LET limit == parseLimit(OrDefault(in.limit, <<"1", "0", "0">>),
                            SearchFallback, SearchMax)
        keywords == NormalizeKeywords(KeywordsRaw(in.keyword, in.keywords, in.q))
        w == SearchWhere(keywords, in.roomId)
    IN  IF keywords = <<>>
        THEN Reply(400,
                   <<"Provide at least one keyword via keyword, keywords, or q query param.">>,
                   <<>>)
        ELSE Query(limit, 0, keywords,
                   Statement("select", <<>>, w.conj, w.disj, buildTimestampOrderClause),
                   Append(w.params, IntV(limit)))

PlanOf(ep, in, dbPath, exists, t) ==
    CASE ep = "tables" -> TablesPlan(dbPath, exists)
      [] ep = "table" -> TableDumpPlan(in, dbPath, exists)
      [] ep = "history-count" -> HistoryCountPlan
      [] ep = "unique-users" -> UniqueUsersPlan
      [] ep = "unique-users-24h" -> UniqueUsers24hPlan(t)
      [] ep = "top-users" -> TopUsersPlan(in, t)
      [] ep = "recent" -> RecentPlan(in)
      [] ep = "by-user" -> ByUserPlan(in)
      [] OTHER -> SearchPlan(in)

(***************************************************************************)
(* Storage Accessor and the requests.                                      *)
(***************************************************************************)
Has(events, e) == \E i \in 1..Len(events) : events[i] = e

Response(status, error, path, limit, sinceHours, keywords, data) ==
    [status |-> status, error |-> error, path |-> path, limit |-> limit,
     sinceHours |-> sinceHours, keywords |-> keywords, data |-> data]

NoResponse == Response(0, <<>>, <<>>, 0, 0, <<>>, NoResult)

IdleRequest ==
    [pc |-> "idle", ep |-> "", in |-> NoInputs, path |-> <<>>, limit |-> 0,
     hours |-> 0, keywords |-> <<>>, sql |-> NoStatement, params |-> <<>>,
     promise |-> "none", out |-> Outcome(<<>>, NoResult), conn |-> 0,
     res |-> NoResponse, sent |-> 0, log |-> <<>>]

\* mutant of openDb: a connection that is still open is handed out again
openDbShared(conns, r) ==
    LET open == {c \in 1..Len(conns) : conns[c].state = "open"}
    IN  IF open = {} THEN [conns |-> Append(conns, [owner |-> r, users |-> {},
                                                    state |-> "open"]),
                           db |-> Len(conns) + 1]
        ELSE [conns |-> conns, db |-> CHOOSE c \in open : TRUE]

\* new sqlite3.Database(dbPath): a connection of its own for the caller
openDb(conns, r) ==
    [conns |-> Append(conns, [owner |-> r, users |-> {}, state |-> "open"]),
     db |-> Len(conns) + 1]

\* all(), the promise executor: what it does before it returns
AllExecutor(exists) ==
    IF ~exists THEN <<"reject">> ELSE <<"open", "all">>

\* mutant of AllCallback: the failure path rejects without closing
AllCallbackLeakOnError(failed) ==
    IF failed THEN <<"reject">> ELSE <<"close", "resolve">>

\* all(), the callback of db.all: what it does, in order
AllCallback(failed) ==
    IF failed THEN <<"close", "reject">> ELSE <<"close", "resolve">>

\* res.json(...) of the endpoint after its await
SuccessResponse(q) ==
    Response(200, <<>>, IF q.ep = "tables" THEN q.path ELSE <<>>,
             q.limit, q.hours, q.keywords, q.out.out)

\* mutant of ErrorResponse: the catch answers with an empty success payload
ErrorResponseSwallowed(q) ==
    Response(200, <<>>, <<>>, q.limit, q.hours, q.keywords, NoResult)

\* catch (err) { res.status(500).json({ error: err.message }) }
ErrorResponse(q) == Response(500, q.out.err, <<>>, 0, 0, <<>>, NoResult)

\* a request arrives: its handler runs up to its reply or to await all(...)
Start(r, ep, in) ==
    /\ req[r].pc = "idle"
    /\ LET dbPath == resolveDbPath(env)
           plan == PlanOf(ep, in, dbPath, dbExists, now)
           events == IF plan.call THEN AllExecutor(dbExists) ELSE <<>>
           opened == openDb(conn, r)
           replied == plan.status # 0
       IN  /\ req' = [req EXCEPT ![r] =
                [pc |-> IF plan.call THEN "awaiting" ELSE "done",
                 ep |-> ep, in |-> in, path |-> dbPath, limit |-> plan.limit,
                 hours |-> plan.hours, keywords |-> plan.keywords,
                 sql |-> plan.sql, params |-> plan.params,
                 promise |-> IF ~plan.call THEN "none"
                             ELSE IF Has(events, "reject") THEN "rejected"
                             ELSE "pending",
                 out |-> IF Has(events, "reject")
                         THEN Outcome(<<"DB file not found: ">> \o dbPath, NoResult)
                         ELSE Outcome(<<>>, NoResult),
                 conn |-> IF Has(events, "open") THEN opened.db ELSE 0,
                 res |-> IF replied
                         THEN Response(plan.status, plan.error, plan.path,
                                       0, 0, <<>>, NoResult)
                         ELSE NoResponse,
                 sent |-> IF replied THEN 1 ELSE 0,
                 log |-> (IF replied THEN <<"respond">> ELSE <<>>) \o events]]
           /\ conn' = IF Has(events, "open") THEN opened.conns ELSE conn
    /\ UNCHANGED <<dbExists, tables, messages, now, env, dash>>

GetTables(r) == Start(r, "tables", NoInputs)

GetTable(r, name, limit, offset) ==
    Start(r, "table", [NoInputs EXCEPT !.name = name, !.limit = limit, !.offset = offset])

GetHistoryCount(r) == Start(r, "history-count", NoInputs)

GetUniqueUsers(r) == Start(r, "unique-users", NoInputs)

GetUniqueUsers24h(r) == Start(r, "unique-users-24h", NoInputs)

GetTopUsers(r, limit, hours) ==
    Start(r, "top-users", [NoInputs EXCEPT !.limit = limit, !.hours = hours])

GetRecent(r, limit, roomId) ==
    Start(r, "recent", [NoInputs EXCEPT !.limit = limit, !.roomId = roomId])

GetByUser(r, limit, openId, uname) ==
    Start(r, "by-user",
          [NoInputs EXCEPT !.limit = limit, !.openId = openId, !.uname = uname])

GetSearch(r, limit, keyword, keywords, q, roomId) ==
    Start(r, "search",
          [NoInputs EXCEPT !.limit = limit, !.keyword = keyword,
                           !.keywords = keywords, !.q = q, !.roomId = roomId])

\* mutant of StoreAfter: the dump empties the table it read
StoreAfterPurge(stmt, msgs) == IF stmt.shape = "dump" THEN <<>> ELSE msgs

\* the rows of the message table after db.all ran the statement: every
\* statement the handlers build is a SELECT
StoreAfter(stmt, msgs) == msgs

\* a request that carries a db query parameter besides its own
GetWithDb(r, ep, in, db) == Start(r, ep, [in EXCEPT !.db = db])

\* the callback of db.all fires: the close is started and the promise settled
StatementDone(r) ==
    /\ req[r].pc = "awaiting"
    /\ req[r].promise = "pending"
    /\ req[r].conn # 0
    /\ LET q == req[r]
           outcome == Exec(q.sql, q.params, tables, messages)
           events == AllCallback(outcome.err # <<>>)
       IN  /\ req' = [req EXCEPT ![r].promise =
                                     IF Has(events, "reject") THEN "rejected"
                                     ELSE "resolved",
                                 ![r].out = outcome,
                                 ![r].log = @ \o events]
           /\ conn' = [conn EXCEPT ![q.conn].users = @ \cup {r},
                                   ![q.conn].state =
                                       IF Has(events, "close") THEN "closing" ELSE @]
           /\ messages' = StoreAfter(q.sql, messages)
    /\ UNCHANGED <<dbExists, tables, now, env, dash>>

\* the handler continues after its await: the success reply, or the catch
Resume(r) ==
    /\ req[r].pc = "awaiting"
    /\ req[r].promise \in {"resolved", "rejected"}
    /\ LET q == req[r]
       IN  req' = [req EXCEPT ![r].pc = "done",
                              ![r].res = IF q.sent > 0 THEN q.res
                                         ELSE IF q.promise = "resolved"
                                         THEN SuccessResponse(q)
                                         ELSE ErrorResponse(q),
                              ![r].sent = @ + 1,
                              ![r].log = Append(@, "respond")]
    /\ UNCHANGED <<dbExists, tables, messages, now, env, conn, dash>>

\* db.close completes
CloseDone(c) ==
    /\ c \in 1..Len(conn)
    /\ conn[c].state = "closing"
    /\ conn' = [conn EXCEPT ![c].state = "closed"]
    /\ UNCHANGED <<dbExists, tables, messages, now, env, req, dash>>

(***************************************************************************)
(* The dashboard component DYSChat: its two refs, the state it displays,   *)
(* and fetchDashboardData, called by the polling effect, by the interval   *)
(* timer and by the Refresh button.  A displayed value is 0 at first and   *)
(* the number of the fetch it came from afterwards.  A run is a call of    *)
(* fetchDashboardData that took the lock; it is settled once it ran to its *)
(* end, and stays in runs while requests of it are still on the network;   *)
(* last is how Promise.all settled for the run that ended last.            *)
(***************************************************************************)
TopUsersUrl == "/stats/top-users"

RecentUrl == "/messages/recent"

HistoryCountUrl == "/stats/history-count"

\* the three requests of Promise.all
DashboardUrls == {TopUsersUrl, RecentUrl, HistoryCountUrl}

\* useState and useRef initial values, before any effect ran
DashInit ==
    [stage |-> "rendered", mounts |-> 0, timer |-> FALSE,
     isMountedRef |-> TRUE, fetchLockRef |-> FALSE,
     topUsers |-> 0, recentMessages |-> 0, totalMessages |-> 0,
     sinceHours |-> 0, lastUpdated |-> 0, error |-> <<>>, isFetching |-> FALSE,
     runs |-> <<>>, started |-> 0, lastCall |-> "none",
     last |-> [id |-> 0, result |-> "none", reason |-> <<>>]]

\* fetchJson throws new Error(`Failed to fetch ${url}: ...`)
FetchError(url) == <<"Failed to fetch ", url>>

\* fetchDashboardData up to its await: a call under the lock returns, any
\* other takes the lock and sends the three requests
FetchStart(d) ==
    IF d.fetchLockRef THEN [d EXCEPT !.lastCall = "skipped"]
    ELSE [d EXCEPT !.fetchLockRef = TRUE, !.isFetching = TRUE, !.error = <<>>,
                   !.started = @ + 1,
                   !.runs = Append(@, [id |-> d.started + 1, settled |-> FALSE,
                                       got |-> [u \in DashboardUrls |-> "pending"]]),
                   !.lastCall = "started"]

\* after the await, all three fulfilled
FetchSuccess(d, run) ==
    IF ~d.isMountedRef THEN d
    ELSE [d EXCEPT !.topUsers = run.id, !.sinceHours = run.id,
                   !.recentMessages = run.id, !.totalMessages = run.id,
                   !.lastUpdated = run.id]

\* mutant of FetchCatch: the failure also clears the data on display
FetchCatchClearing(d, message) ==
    IF ~d.isMountedRef THEN d
    ELSE [d EXCEPT !.error = message, !.topUsers = 0, !.recentMessages = 0]

\* catch (err)
FetchCatch(d, message) ==
    IF ~d.isMountedRef THEN d ELSE [d EXCEPT !.error = message]

\* mutant of FetchFinally: the lock is released with isFetching, only while
\* mounted
FetchFinallyWhileMounted(d) ==
    IF d.isMountedRef THEN [d EXCEPT !.isFetching = FALSE, !.fetchLockRef = FALSE]
    ELSE d

\* finally
FetchFinally(d) ==
    [d EXCEPT !.isFetching = IF d.isMountedRef THEN FALSE ELSE @,
              !.fetchLockRef = FALSE]

\* the runs with the i-th replaced, or dropped when all its requests are
\* answered
WithRun(runs, i, run) ==
    IF \E u \in DashboardUrls : run.got[u] = "pending"
    THEN [runs EXCEPT ![i] = run]
    ELSE SubSeq(runs, 1, i - 1) \o SubSeq(runs, i + 1, Len(runs))

\* the effects run: isMountedRef is set, fetchDashboardData is called and
\* the interval timer is set
DashMount ==
    /\ dash.stage # "mounted"
    /\ dash.mounts < MaxMounts
    /\ dash.fetchLockRef \/ dash.started < MaxFetches
    /\ dash' = FetchStart([dash EXCEPT !.stage = "mounted", !.mounts = @ + 1,
                                       !.isMountedRef = TRUE, !.timer = TRUE])
    /\ UNCHANGED <<dbExists, tables, messages, now, env, req, conn>>

\* the cleanups run: isMountedRef is cleared and the timer too
DashUnmount ==
    /\ dash.stage = "mounted"
    /\ dash' = [dash EXCEPT !.stage = "unmounted", !.isMountedRef = FALSE,
                            !.timer = FALSE]
    /\ UNCHANGED <<dbExists, tables, messages, now, env, req, conn>>

\* window.setInterval(fetchDashboardData, REFRESH_INTERVAL_MS) fires
DashTick ==
    /\ dash.timer
    /\ dash.fetchLockRef \/ dash.started < MaxFetches
    /\ dash' = FetchStart(dash)
    /\ UNCHANGED <<dbExists, tables, messages, now, env, req, conn>>

\* the Refresh button, disabled while isFetching, is clicked
DashRefresh ==
    /\ dash.stage = "mounted"
    /\ ~dash.isFetching
    /\ dash.fetchLockRef \/ dash.started < MaxFetches
    /\ dash' = FetchStart(dash)
    /\ UNCHANGED <<dbExists, tables, messages, now, env, req, conn>>

\* one request of the i-th run is answered: Promise.all rejects with the
\* first failure and fulfils with the last success (the answers before it
\* were successes, or the run would be settled), and the run goes on from
\* its await to its end; an answer to a run that is settled is dropped
DashResponse(i, url, ok) ==
    /\ i \in 1..Len(dash.runs)
    /\ dash.runs[i].got[url] = "pending"
    /\ LET was == dash.runs[i]
           got == [was.got EXCEPT ![url] = "answered"]
           all == \A u \in DashboardUrls : got[u] = "answered"
           settles == ~was.settled /\ (~ok \/ all)
           run == [was EXCEPT !.got = got, !.settled = @ \/ settles]
           settled == [id |-> was.id,
                       result |-> IF ok THEN "fulfilled" ELSE "rejected",
                       reason |-> IF ok THEN <<>> ELSE FetchError(url)]
           left == [dash EXCEPT !.runs = WithRun(@, i, run),
                                !.last = IF settles THEN settled ELSE @]
       IN  dash' = IF ~settles THEN left
                   ELSE IF ~ok THEN FetchFinally(FetchCatch(left, FetchError(url)))
                   ELSE FetchFinally(FetchSuccess(left, run))
    /\ UNCHANGED <<dbExists, tables, messages, now, env, req, conn>>

(***************************************************************************)
(* Stores and inputs the specifications draw from.                         *)
(***************************************************************************)
U1 == <<"u", "1">>

U2 == <<"u", "2">>

R1 == <<"r", "1">>

R2 == <<"r", "2">>

\* times around the 24 hour cutoff of the clock reading t
JustBefore(t) == t - Hours24 * SecondsPerHour - 1

AtCutoff(t) == t - Hours24 * SecondsPerHour

AnHourAgo(t) == t - SecondsPerHour

\* all sequences of at most n elements of S
RECURSIVE SeqsUpTo(_, _)
SeqsUpTo(S, n) ==
    IF n = 0 THEN {<<>>}
    ELSE LET shorter == SeqsUpTo(S, n - 1)
         IN  shorter \cup {Append(x, e) : x \in shorter, e \in S}

\* the store assigns the ids in insertion order
WithIds(rows) == [i \in 1..Len(rows) |-> [rows[i] EXCEPT !.id = i]]

\* a store with one message that has a timestamp, one that has only
\* created_at and lies before the cutoff, and one old message with a timestamp
SampleMessages(t) ==
    <<Message(1, U1, <<"a", "b">>, <<"a", "b">>, R1, IntV(AnHourAgo(t)), AnHourAgo(t)),
      Message(2, U2, <<"A">>, <<"B">>, R2, Null, JustBefore(t)),
      Message(3, U1, <<"a", "b">>, <<"a">>, R1, IntV(JustBefore(t)), AnHourAgo(t))>>

IdleRequests == [r \in 1..NReq |-> IdleRequest]

\* the file is missing; or it is there, without or with the message table
InitStore(msgs) ==
    /\ now = 200000
    /\ \/ dbExists = FALSE /\ tables = {} /\ messages = <<>>
       \/ dbExists = TRUE /\ tables = {} /\ messages = <<>>
       \/ dbExists = TRUE /\ tables = {danmaku_messages, <<"t">>} /\ messages \in msgs
    /\ req = IdleRequests
    /\ conn = <<>>
    /\ dash = DashInit

(***************************************************************************)
(* Spec: one request to any endpoint, on a missing file, an empty store or *)
(* the sample store.                                                       *)
(***************************************************************************)
Init ==
    /\ env \in {<<>>, <<"d">>}
    /\ InitStore({SampleMessages(200000)})

Next ==
    \/ GetTables(1)
    \/ \E name \in {danmaku_messages, <<"t">>, <<"x">>} : GetTable(1, name, Absent, Absent)
    \/ GetHistoryCount(1)
    \/ GetUniqueUsers(1)
    \/ GetUniqueUsers24h(1)
    \/ \E limit \in {Absent, Given(<<"1">>)} : GetTopUsers(1, limit, Absent)
    \/ \E roomId \in {Absent, Given(R1)} : GetRecent(1, Absent, roomId)
    \/ \E openId \in {Absent, Given(<<>>), Given(U1)}, uname \in {Absent, Given(<<"a">>)} :
            GetByUser(1, Absent, openId, uname)
    \/ \E keyword \in {NoKeyword, KeywordString(<<"a">>), KeywordString(<<" ", ",">>),
                       KeywordArray(<<<<" ">>>>), KeywordArray(<<<<"a">>, <<"b">>>>)},
          q \in {NoKeyword, KeywordString(<<"b">>)},
          roomId \in {Absent, Given(R1)} :
            GetSearch(1, Absent, keyword, NoKeyword, q, roomId)
    \/ StatementDone(1)
    \/ Resume(1)
    \/ \E c \in 1..Len(conn) : CloseDone(c)

Spec == Init /\ [][Next]_vars

(***************************************************************************)
(* SpecConcurrent: NReq requests interleaved in any order, some of them    *)
(* failing at the engine, some answered without a statement.               *)
(***************************************************************************)
InitConcurrent ==
    /\ env = <<>>
    /\ InitStore({SampleMessages(200000)})

NextConcurrent ==
    \/ \E r \in 1..NReq : GetTables(r)
    \/ \E r \in 1..NReq : GetHistoryCount(r)
    \/ \E r \in 1..NReq : GetTable(r, <<"x">>, Absent, Absent)
    \/ \E r \in 1..NReq, openId \in {Absent, Given(U1)} :
            GetByUser(r, Absent, openId, Absent)
    \/ \E r \in 1..NReq : StatementDone(r)
    \/ \E r \in 1..NReq : Resume(r)
    \/ \E c \in 1..Len(conn) : CloseDone(c)

SpecConcurrent == InitConcurrent /\ [][NextConcurrent]_vars

(***************************************************************************)
(* Claims about the failure policy and the Storage Accessor.               *)
(***************************************************************************)
Responded(r) == req[r].pc = "done"

\* the request lacks its required search input
MissingInput(q) ==
    \/ q.ep = "by-user" /\ ~Truthy(q.in.openId) /\ ~Truthy(q.in.uname)
    \/ q.ep = "search"
       /\ NormalizeKeywords(KeywordsRaw(q.in.keyword, q.in.keywords, q.in.q)) = <<>>

\* C1: whenever the store file does not exist, every endpoint (given its
\* required input) answers 404 with the attempted path, never 500.
C1_MissingStoreIsNotFound ==
    \A r \in 1..NReq :
        (Responded(r) /\ ~dbExists /\ ~MissingInput(req[r]))
        => /\ req[r].res.status = 404
           /\ req[r].res.path = resolveDbPath(env)

\* the position of the first event e of a log, 0 when it has none
FirstAt(log, e) ==
    IF Has(log, e) THEN CHOOSE i \in 1..Len(log) : log[i] = e /\ \A j \in 1..(i - 1) : log[j] # e
    ELSE 0

Settled(log) == Has(log, "resolve") \/ Has(log, "reject")

SettledAt(log) ==
    IF Has(log, "resolve") THEN FirstAt(log, "resolve") ELSE FirstAt(log, "reject")

\* C2: a call of all() that opened a connection starts the close of that
\* connection before it delivers rows or an error, and a call on a missing
\* file is rejected without opening a connection.
C2_CloseBeforeDelivery ==
    \A r \in 1..NReq :
        LET q == req[r]
        IN  /\ (Has(q.log, "open") /\ Settled(q.log))
               => /\ Has(q.log, "close")
                  /\ FirstAt(q.log, "open") < FirstAt(q.log, "close")
                  /\ FirstAt(q.log, "close") < SettledAt(q.log)
                  /\ conn[q.conn].state \in {"closing", "closed"}
            /\ (q.promise # "none" /\ ~dbExists)
               => /\ q.promise = "rejected"
                  /\ ~Has(q.log, "open")
                  /\ q.conn = 0
                  /\ conn = <<>>
    /\ dash = DashInit

\* C2 witness: a statement failed at the engine on an opened connection and
\* the error was delivered
C2_Witness ==
    \E r \in 1..NReq :
        /\ Has(req[r].log, "open")
        /\ Has(req[r].log, "reject")
        /\ req[r].res.status = 500

\* C8: a request without its required search input is answered 400 and never
\* reaches the Storage Accessor: no statement, no promise, no connection.
C8_MissingInputNeverQueries ==
    \A r \in 1..NReq :
        (req[r].pc # "idle" /\ MissingInput(req[r]))
        => /\ req[r].res.status = 400
           /\ req[r].pc = "done"
           /\ req[r].promise = "none"
           /\ req[r].sql = NoStatement
           /\ req[r].conn = 0
           /\ ~Has(req[r].log, "open")
           /\ ~Has(req[r].log, "all")
           /\ conn = <<>>
    /\ dash = DashInit

\* C8 witness: a search whose keywords are all blank, on an existing store
C8_Witness ==
    \E r \in 1..NReq :
        /\ dbExists
        /\ req[r].ep = "search"
        /\ req[r].in.keyword.kind # "absent"
        /\ MissingInput(req[r])
        /\ req[r].res.status = 400

\* C3: under any interleaving every connection is opened and used by one
\* request only, and once all requests have responded and no close is in
\* progress no connection is left open.
C3_NoConnectionLeak ==
    /\ \A c \in 1..Len(conn) :
            /\ conn[c].users \subseteq {conn[c].owner}
            /\ req[conn[c].owner].conn = c
    /\ \A r1, r2 \in 1..NReq :
            (r1 # r2 /\ req[r1].conn # 0) => req[r1].conn # req[r2].conn
    /\ ((\A r \in 1..NReq : Responded(r))
        /\ (\A c \in 1..Len(conn) : conn[c].state # "closing"))
       => \A c \in 1..Len(conn) :
            conn[c].state = "closed" /\ conn[c].users = {conn[c].owner}

\* C3 witness: two requests ran concurrently, one failed and one succeeded,
\* and every connection is closed
C3_Witness ==
    /\ Len(conn) >= 2
    /\ \A r \in 1..NReq : Responded(r)
    /\ \E r \in 1..NReq : req[r].res.status = 500 /\ req[r].conn # 0
    /\ \E r \in 1..NReq : req[r].res.status = 200
    /\ \A c \in 1..Len(conn) : conn[c].state = "closed"

(***************************************************************************)
(* SpecOrder: one request for messages or for a windowed statistic, on     *)
(* every store of at most MaxRows rows whose times lie on either side of   *)
(* the 24 hour cutoff, given by timestamp or by created_at alone.          *)
(***************************************************************************)
OrderRows(t) ==
    {Message(0, open_id, <<"a">>, <<"a">>, R1, timestamp, created_at) :
        open_id \in {U1, U2},
        timestamp \in {Null, IntV(JustBefore(t)), IntV(AtCutoff(t))},
        created_at \in {JustBefore(t), AtCutoff(t)}}

InitOrder ==
    /\ now = 200000
    /\ env = <<>>
    /\ dbExists = TRUE
    /\ tables = {danmaku_messages}
    /\ messages \in {WithIds(rows) : rows \in SeqsUpTo(OrderRows(200000), MaxRows)}
    /\ req = IdleRequests
    /\ conn = <<>>
    /\ dash = DashInit

NextOrder ==
    \/ \E limit \in {Absent, Given(<<"1">>)}, roomId \in {Absent, Given(R1)} :
            GetRecent(1, limit, roomId)
    \/ \E openId \in {Absent, Given(U1)} : GetByUser(1, Absent, openId, Given(<<"a">>))
    \/ GetSearch(1, Absent, KeywordString(<<"a">>), NoKeyword, NoKeyword, Absent)
    \/ GetUniqueUsers24h(1)
    \/ \E limit \in {Absent, Given(<<"1">>)} : GetTopUsers(1, limit, Absent)
    \/ StatementDone(1)
    \/ Resume(1)
    \/ \E c \in 1..Len(conn) : CloseDone(c)

SpecOrder == InitOrder /\ [][NextOrder]_vars

\* effective time of a message: timestamp if present, else the epoch seconds
\* of created_at
EffectiveTime(row) ==
    IF row.timestamp.t = "int" THEN row.timestamp.n ELSE row.created_at

\* the rows of the store the request's WHERE selects
Selected(q) == SelectSeq(messages, LAMBDA row : RowQualifies(q.sql, q.params, row))

\* C4: recent, by-user and search return their rows in non-increasing order
\* of effective time, and the rows returned are the `limit` selected rows
\* with the greatest effective time.
C4_SortedByEffectiveTime ==
    \A r \in 1..NReq :
        (Responded(r) /\ req[r].ep \in {"recent", "by-user", "search"}
         /\ req[r].res.status = 200)
        => LET rows == req[r].res.data.msgs
               selected == Selected(req[r])
               returned == {rows[i].id : i \in 1..Len(rows)}
           IN  /\ \A i, j \in 1..Len(rows) :
                    i < j => EffectiveTime(rows[i]) >= EffectiveTime(rows[j])
               /\ Len(rows) = Min(req[r].limit, Len(selected))
               /\ \A i \in 1..Len(rows), k \in 1..Len(selected) :
                    selected[k].id \notin returned
                    => EffectiveTime(rows[i]) >= EffectiveTime(selected[k])

\* C5: unique-users-24h is the number of distinct open_id among the rows
\* whose effective time is at or after now - 24*3600, whichever field the
\* effective time comes from.
C5_UniqueUsers24hExact ==
    \A r \in 1..NReq :
        (Responded(r) /\ req[r].ep = "unique-users-24h" /\ req[r].res.status = 200)
        => req[r].res.data.count =
              Cardinality({messages[i].open_id :
                              i \in {k \in 1..Len(messages) :
                                        EffectiveTime(messages[k])
                                            >= now - 24 * 3600}})

(***************************************************************************)
(* SpecSearch: one keyword search, the keyword text drawn from letters,    *)
(* the LIKE wildcards, commas and blanks, on every store of at most        *)
(* MaxRows messages in two rooms.                                          *)
(***************************************************************************)
SearchRows ==
    {Message(0, U1, <<"a">>, msg, room_id, IntV(1), 1) :
        msg \in {<<"a", "b">>, <<"a", "_">>, <<"B">>, <<"%">>},
        room_id \in {R1, R2}}

InitSearch ==
    /\ now = 200000
    /\ env = <<>>
    /\ dbExists = TRUE
    /\ tables = {danmaku_messages}
    /\ messages \in {WithIds(rows) : rows \in SeqsUpTo(SearchRows, MaxRows)}
    /\ req = IdleRequests
    /\ conn = <<>>
    /\ dash = DashInit

NextSearch ==
    \/ /\ req[1].pc = "idle"
       /\ \E text \in TextsUpTo({"a", "b", "_", "%", ",", " "}, MaxKeywordLen),
             roomId \in {Absent, Given(R1)} :
            GetSearch(1, Absent, KeywordString(text), NoKeyword, NoKeyword, roomId)
    \/ \E list \in {<<<<"a">>, <<"b">>>>, <<<<" ">>, <<"B", " ">>>>} :
            GetSearch(1, Given(<<"1">>), NoKeyword, KeywordArray(list), NoKeyword, Absent)
    \/ StatementDone(1)
    \/ Resume(1)
    \/ \E c \in 1..Len(conn) : CloseDone(c)

SpecSearch == InitSearch /\ [][NextSearch]_vars

\* x contains k as a literal substring, without regard to ASCII case
ContainsNoCase(x, k) ==
    \E i \in 0..(Len(x) - Len(k)) :
        LowerStr(SubSeq(x, i + 1, i + Len(k))) = LowerStr(k)

\* C6: with enough limit, keyword search returns exactly the rows whose msg
\* contains one of the keywords as a literal substring (case-insensitive),
\* within the room when roomId is supplied, for every keyword text.
C6_SearchIsLiteralUnion ==
    \A r \in 1..NReq :
        (Responded(r) /\ req[r].ep = "search" /\ req[r].res.status = 200
         /\ req[r].limit >= Len(messages))
        => LET q == req[r]
               rows == q.res.data.msgs
           IN  {rows[i].id : i \in 1..Len(rows)} =
                  {messages[i].id :
                      i \in {k \in 1..Len(messages) :
                                /\ \E j \in 1..Len(q.keywords) :
                                      ContainsNoCase(messages[k].msg, q.keywords[j])
                                /\ Truthy(q.in.roomId)
                                   => messages[k].room_id = q.in.roomId.v}}

(***************************************************************************)
(* SpecUser: one messages-by-user request with openId, uname, both or      *)
(* neither, on every store of at most MaxRows messages of two senders.     *)
(***************************************************************************)
UserRows ==
    {Message(0, open_id, uname, <<"a">>, R1, IntV(1), 1) :
        open_id \in {U1, U2},
        uname \in {<<"a", "b">>, <<"A">>, <<"b">>}}

InitUser ==
    /\ now = 200000
    /\ env = <<>>
    /\ dbExists = TRUE
    /\ tables = {danmaku_messages}
    /\ messages \in {WithIds(rows) : rows \in SeqsUpTo(UserRows, MaxRows)}
    /\ req = IdleRequests
    /\ conn = <<>>
    /\ dash = DashInit

NextUser ==
    \/ \E openId \in {Absent, Given(<<>>), Given(U1), Given(U2)},
          uname \in {Absent, Given(<<"a">>), Given(<<"B">>), Given(<<"_">>)} :
            GetByUser(1, Absent, openId, uname)
    \/ StatementDone(1)
    \/ Resume(1)
    \/ \E c \in 1..Len(conn) : CloseDone(c)

SpecUser == InitUser /\ [][NextUser]_vars

HasWildcard(x) == \E i \in 1..Len(x) : x[i] \in {"%", "_"}

\* C7: with openId supplied the rows returned are exactly those of that
\* open_id, whatever uname says; the substring match on uname decides only
\* when openId is absent.
C7_OpenIdExclusive ==
    \A r \in 1..NReq :
        (Responded(r) /\ req[r].ep = "by-user" /\ req[r].res.status = 200)
        => LET q == req[r]
               rows == q.res.data.msgs
               returned == {rows[i].id : i \in 1..Len(rows)}
               all == 1..Len(messages)
           IN  /\ Len(q.sql.conj) = 1 /\ q.sql.disj = <<>>
               /\ Truthy(q.in.openId)
                  => /\ q.sql.conj[1].expr = "open_id"
                     /\ returned = {messages[i].id :
                            i \in {k \in all : messages[k].open_id = q.in.openId.v}}
               /\ ~Truthy(q.in.openId)
                  => /\ q.sql.conj[1].expr = "uname"
                     /\ ~HasWildcard(q.in.uname.v)
                        => returned = {messages[i].id :
                              i \in {k \in all :
                                  ContainsNoCase(messages[k].uname, q.in.uname.v)}}

\* C7 witness: openId and uname both supplied, a row of another sender whose
\* uname contains the supplied uname is in the store and is not returned
C7_Witness ==
    \E r \in 1..NReq :
        /\ Responded(r) /\ req[r].ep = "by-user" /\ req[r].res.status = 200
        /\ Truthy(req[r].in.openId) /\ Truthy(req[r].in.uname)
        /\ Len(req[r].res.data.msgs) = 1
        /\ \E k \in 1..Len(messages) :
              /\ messages[k].open_id # req[r].in.openId.v
              /\ ContainsNoCase(messages[k].uname, req[r].in.uname.v)

(***************************************************************************)
(* SpecLimit: one request to an endpoint that takes a limit, the limit     *)
(* absent or any text of at most MaxLimitLen characters drawn from digits, *)
(* the sign, the blank and a letter, on the sample store.                  *)
(***************************************************************************)
LimitInputs ==
    {Absent} \cup {Given(x) : x \in TextsUpTo({"0", "1", "2", "5", "9", "-", " ", "a"},
                                              MaxLimitLen)}

InitLimit ==
    /\ now = 200000
    /\ env = <<>>
    /\ dbExists = TRUE
    /\ tables = {danmaku_messages}
    /\ messages = SampleMessages(200000)
    /\ req = IdleRequests
    /\ conn = <<>>
    /\ dash = DashInit

NextLimit ==
    \/ /\ req[1].pc = "idle"
       /\ \E limit \in LimitInputs :
            \/ GetRecent(1, limit, Absent)
            \/ GetByUser(1, limit, Given(U1), Absent)
            \/ GetSearch(1, limit, KeywordString(<<"a">>), NoKeyword, NoKeyword, Absent)
            \/ GetTopUsers(1, limit, Absent)
    \/ StatementDone(1)
    \/ Resume(1)
    \/ \E c \in 1..Len(conn) : CloseDone(c)

SpecLimit == InitLimit /\ [][NextLimit]_vars

TakesLimit(ep) == ep \in {"recent", "by-user", "search", "top-users"}

\* the documented fallback and maximum of each endpoint
DocumentedFallback(ep) ==
    CASE ep = "recent" -> 50 [] ep = "top-users" -> 10 [] OTHER -> 100

DocumentedMax(ep) ==
    CASE ep = "recent" -> 200 [] ep = "top-users" -> 100 [] OTHER -> 500

\* the text begins, after blanks and an optional sign, with a digit
IsNumeric(x) ==
    \E i \in 1..Len(x) :
        /\ IsDigit(x[i])
        /\ \A j \in 1..(i - 1) : x[j] = " " \/ (j = i - 1 /\ x[j] \in {"-", "+"})

\* C9: the limit of recent, by-user, search and top-users is the fallback
\* when the parameter is absent, non-numeric or <= 0 and min(parsed, max)
\* otherwise; it lies in 1..max, is the limit bound to the statement and
\* echoed in the response, and the response has no more rows than it.
C9_LimitNormalized ==
    \A r \in 1..NReq :
        (req[r].pc # "idle" /\ TakesLimit(req[r].ep) /\ req[r].sql # NoStatement)
        => LET q == req[r]
               raw == q.in.limit
               fallback == DocumentedFallback(q.ep)
               max == DocumentedMax(q.ep)
               parsed == ParseInt(raw.v)
               rows == IF q.ep = "top-users" THEN q.res.data.top ELSE q.res.data.msgs
           IN  /\ (~raw.present \/ ~IsNumeric(raw.v)) => q.limit = fallback
               /\ (raw.present /\ IsNumeric(raw.v) /\ parsed.v <= 0) => q.limit = fallback
               /\ (raw.present /\ IsNumeric(raw.v) /\ parsed.v > 0)
                  => q.limit = (IF parsed.v < max THEN parsed.v ELSE max)
               /\ q.limit \in 1..max
               /\ q.params[Len(q.params)] = IntV(q.limit)
               /\ q.res.status = 200
                  => q.res.limit = q.limit /\ Len(rows) <= q.limit

\* C9 witness: a limit below the number of selected rows cut the response
C9_Witness ==
    \E r \in 1..NReq :
        /\ Responded(r) /\ req[r].ep = "recent" /\ req[r].res.status = 200
        /\ req[r].in.limit.present
        /\ Len(req[r].res.data.msgs) = req[r].limit
        /\ Len(Selected(req[r])) > req[r].limit

(***************************************************************************)
(* SpecDump: one table dump of any name of at most MaxNameLen characters   *)
(* drawn from letters and the quote, on a store that has or lacks tables   *)
(* of such names.                                                          *)
(***************************************************************************)
DumpNames ==
    (TextsUpTo({"a", "b", "\""}, MaxNameLen) \ {<<>>}) \cup {danmaku_messages}

InitDump ==
    /\ now = 200000
    /\ env = <<>>
    /\ dbExists \in BOOLEAN
    /\ tables \in {{danmaku_messages},
                   {danmaku_messages, <<"a", "\"", "b">>, <<"\"">>, <<"a">>}}
    /\ messages = SampleMessages(200000)
    /\ req = IdleRequests
    /\ conn = <<>>
    /\ dash = DashInit

NextDump ==
    \/ /\ req[1].pc = "idle"
       /\ \E name \in DumpNames,
             limit \in {Absent, Given(<<"2">>), Given(<<"a">>), Given(<<"0">>),
                        Given(<<"-", "1">>)},
             offset \in {Absent, Given(<<"1">>), Given(<<"-", "1">>)} :
            GetTable(1, name, limit, offset)
    \/ StatementDone(1)
    \/ Resume(1)
    \/ \E c \in 1..Len(conn) : CloseDone(c)

SpecDump == InitDump /\ [][NextDump]_vars

Quotes(x) == Cardinality({i \in 1..Len(x) : x[i] = "\""})

\* every doubled quote back to one quote
RECURSIVE Undouble(_)
Undouble(x) ==
    IF x = <<>> THEN <<>>
    ELSE IF Head(x) = "\"" /\ Len(x) >= 2 /\ x[2] = "\""
         THEN <<"\"">> \o Undouble(Tail(Tail(x)))
    ELSE <<Head(x)>> \o Undouble(Tail(x))

\* C10: in the table-dump statement the name appears with every quote
\* doubled; un-doubling gives the name back, the quoted identifier read from
\* the statement is the name and ends at the final closing quote, what
\* follows it is the LIMIT/OFFSET clause alone, and a request for a table
\* that exists succeeds whether or not its name has a quote.
C10_IdentifierEscaped ==
    \A r \in 1..NReq :
        (req[r].ep = "table" /\ req[r].sql.shape = "dump")
        => LET q == req[r]
               name == q.in.name
               text == q.sql.text
               limit == ParseInt(OrDefault(q.in.limit, <<"1", "0", "0">>))
               offset == ParseInt(OrDefault(q.in.offset, <<"0">>))
               tail == <<" LIMIT ">> \o NumberText(limit) \o <<" OFFSET ">>
                       \o NumberText(offset)
               escaped == SubSeq(text, 3, Len(text) - Len(tail) - 1)
               d == ParseDump(text)
           IN  /\ Len(escaped) = Len(name) + Quotes(name)
               /\ Quotes(escaped) = 2 * Quotes(name)
               /\ Undouble(escaped) = name
               /\ text = <<"SELECT * FROM ", "\"">> \o escaped \o <<"\"">> \o tail
               /\ d.ok /\ d.wellFormed
               /\ d.name = name
               /\ d.tail = tail
               /\ (Responded(r) /\ ~limit.nan /\ ~offset.nan)
                  => (req[r].res.status = 200 <=> name \in tables)

\* C10 witness: the table a"b exists and its dump succeeded
C10_Witness ==
    \E r \in 1..NReq :
        /\ Responded(r) /\ req[r].ep = "table"
        /\ req[r].in.name = <<"a", "\"", "b">>
        /\ req[r].res.status = 200

(***************************************************************************)
(* Claims about what the statements are made of.                           *)
(***************************************************************************)
\* the predicates and orderings the handlers write as fixed text
FixedTerms ==
    {Term("room_id", "="), Term("open_id", "="), Term("uname", "LIKE"),
     Term("msg", "LIKE"), Term(buildTimestampOrderClause, ">=")}

FixedOrders == {"", "name", "messageCount", buildTimestampOrderClause}

\* C11: the only text of a statement that comes from the request is the
\* escaped identifier of the table dump: the predicates and orderings are
\* fixed text, the dump statement is, but for its identifier, the text it
\* has when limit and offset are not supplied, and a supplied limit or
\* offset is in the bound parameters.
C11_OnlyIdentifierInterpolated ==
    \A r \in 1..NReq :
        (req[r].sql # NoStatement)
        => LET q == req[r]
               supplied == {p \in {q.in.limit, q.in.offset} : Truthy(p)}
           IN  /\ \A i \in 1..Len(q.sql.conj) : q.sql.conj[i] \in FixedTerms
               /\ \A i \in 1..Len(q.sql.disj) : q.sql.disj[i] \in FixedTerms
               /\ q.sql.order \in FixedOrders
               /\ q.sql.shape # "dump" => q.sql.text = <<>>
               /\ q.sql.shape = "dump"
                  => /\ ParseDump(q.sql.text).tail
                        = ParseDump(DumpText(q.in.name, ParseInt(<<"1", "0", "0">>),
                                             ParseInt(<<"0">>))).tail
                     /\ \A p \in supplied :
                            \E i \in 1..Len(q.params) : q.params[i] = IntV(ParseInt(p.v).v)

CountOf(events, e) == Cardinality({i \in 1..Len(events) : events[i] = e})

\* the statement of the request was run by the engine and failed there
FailedAtEngine(q) == Has(q.log, "all") /\ Has(q.log, "reject")

\* C13: a request whose statement failed at the engine is answered once,
\* with a 500 that carries the engine's message and no payload, and its
\* statement was attempted once; every request is answered exactly once when
\* its handler is done and not before, with the full success envelope of the
\* statement's result or with an error envelope without any payload.
C13_OneResponsePerRequest ==
    \A r \in 1..NReq :
        LET q == req[r]
            engine == Exec(q.sql, q.params, tables, messages)
        IN  /\ CountOf(q.log, "all") <= 1
            /\ CountOf(q.log, "respond") = q.sent
            /\ ~Responded(r) => q.sent = 0
            /\ Responded(r)
               => /\ q.sent = 1
                  /\ \/ /\ q.res.status = 200
                        /\ Has(q.log, "resolve") /\ engine.err = <<>>
                        /\ q.res = Response(200, <<>>,
                                            IF q.ep = "tables" THEN q.path ELSE <<>>,
                                            q.limit, q.hours, q.keywords, engine.out)
                     \/ /\ q.res.status \in {400, 404, 500}
                        /\ q.res.error # <<>>
                        /\ q.res.data = NoResult
                        /\ q.res.limit = 0 /\ q.res.keywords = <<>>
                  /\ FailedAtEngine(q)
                     => /\ q.res.status = 500
                        /\ q.res.error = engine.err /\ engine.err # <<>>
                        /\ CountOf(q.log, "all") = 1

\* C13 witness: the dump of a table that does not exist failed at the engine
\* and was answered with the engine's message
C13_Witness ==
    \E r \in 1..NReq :
        /\ Responded(r) /\ req[r].ep = "table" /\ FailedAtEngine(req[r])
        /\ req[r].res.status = 500
        /\ req[r].res.error = <<"no such table">>
        /\ req[r].sent = 1

(***************************************************************************)
(* Claims about the rankings.                                              *)
(***************************************************************************)
\* the rows of the store whose effective time is at or after the cutoff
InWindow(cutoff) ==
    {k \in 1..Len(messages) : EffectiveTime(messages[k]) >= cutoff}

\* C14: top-users answers with one entry per distinct (open_id, uname) among
\* the rows whose effective time is at or after now - hours*3600, each with
\* the number of such rows of the pair, in non-increasing order of the
\* count, cut to the limit entries with the greatest counts; with no row in
\* the window the answer is a success with an empty list.
C14_TopUsersExact ==
    \A r \in 1..NReq :
        (Responded(r) /\ req[r].ep = "top-users")
        => LET q == req[r]
               top == q.res.data.top
               window == InWindow(now - q.hours * 3600)
               pairs == {<<messages[k].open_id, messages[k].uname>> : k \in window}
               count(p) == Cardinality({k \in window :
                               <<messages[k].open_id, messages[k].uname>> = p})
               listed == {<<top[i].open_id, top[i].uname>> : i \in 1..Len(top)}
           IN  /\ q.res.status = 200
               /\ Len(top) = Min(q.limit, Cardinality(pairs))
               /\ Cardinality(listed) = Len(top)
               /\ listed \subseteq pairs
               /\ \A i \in 1..Len(top) :
                     top[i].messageCount = count(<<top[i].open_id, top[i].uname>>)
               /\ \A i, j \in 1..Len(top) :
                     i < j => top[i].messageCount >= top[j].messageCount
               /\ \A i \in 1..Len(top), p \in pairs \ listed :
                     top[i].messageCount >= count(p)
               /\ window = {} => top = <<>>

(***************************************************************************)
(* SpecKeywords: one keyword search on the sample store, the keyword       *)
(* parameter a text of at most MaxKeywordLen + 2 characters drawn from     *)
(* letters, commas and blanks, or repeated at most MaxKeywords times with  *)
(* entries of letters and blanks.                                          *)
(***************************************************************************)
KeywordInputs ==
    {KeywordString(text) :
        text \in TextsUpTo({"a", "b", ",", " "}, MaxKeywordLen + 2)}
    \cup {KeywordArray(list) :
            list \in SeqsUpTo(TextsUpTo({"a", " "}, MaxKeywordLen), MaxKeywords)}

InitKeywords ==
    /\ now = 200000
    /\ env = <<>>
    /\ dbExists = TRUE
    /\ tables = {danmaku_messages}
    /\ messages = SampleMessages(200000)
    /\ req = IdleRequests
    /\ conn = <<>>
    /\ dash = DashInit

NextKeywords ==
    \/ /\ req[1].pc = "idle"
       /\ \E raw \in KeywordInputs :
            \/ GetSearch(1, Absent, raw, NoKeyword, NoKeyword, Absent)
            \/ GetSearch(1, Absent, NoKeyword, raw, NoKeyword, Given(R1))
    \/ StatementDone(1)
    \/ Resume(1)
    \/ \E c \in 1..Len(conn) : CloseDone(c)

SpecKeywords == InitKeywords /\ [][NextKeywords]_vars

\* the pieces with commas between them
RECURSIVE JoinCommas(_)
JoinCommas(pieces) ==
    IF Len(pieces) = 1 THEN pieces[1]
    ELSE pieces[1] \o <<",">> \o JoinCommas(Tail(pieces))

\* t is p without its leading and trailing blanks
IsTrimOf(t, p) ==
    /\ \E i \in 0..Len(p) :
          /\ i + Len(t) <= Len(p)
          /\ SubSeq(p, i + 1, i + Len(t)) = t
          /\ \A j \in (1..i) \cup ((i + Len(t) + 1)..Len(p)) : p[j] = " "
    /\ t # <<>> => t[1] # " " /\ t[Len(t)] # " "

\* C15: a keyword text is cut at its commas and a repeated parameter is
\* taken as it is; the keywords of the request are the pieces that are not
\* blank, each without its leading and trailing blanks, in the order of the
\* input; the response echoes them and the statement has one LIKE predicate
\* and one bound pattern per keyword, in that order.
C15_KeywordsNormalized ==
    \A r \in 1..NReq :
        (req[r].pc # "idle" /\ req[r].ep = "search")
        => LET q == req[r]
               raw == KeywordsRaw(q.in.keyword, q.in.keywords, q.in.q)
               pieces == IF raw.kind = "array" THEN raw.a ELSE SplitCommas(raw.s)
               kept == {i \in 1..Len(pieces) :
                           \E j \in 1..Len(pieces[i]) : pieces[i][j] # " "}
               nth(m) == CHOOSE i \in kept :
                             Cardinality({j \in kept : j < i}) = m - 1
               k == q.keywords
               first == Len(q.sql.conj)
           IN  /\ raw.kind = "string"
                  => /\ JoinCommas(pieces) = raw.s
                     /\ \A i \in 1..Len(pieces) : ~Has(pieces[i], ",")
               /\ Len(k) = Cardinality(kept)
               /\ \A m \in 1..Len(k) :
                     /\ IsTrimOf(k[m], pieces[nth(m)])
                     /\ k[m] # <<>> /\ k[m][1] # " " /\ k[m][Len(k[m])] # " "
               /\ kept # {}
                  => /\ Len(q.sql.disj) = Len(k)
                     /\ \A m \in 1..Len(k) :
                           /\ q.sql.disj[m] = Term("msg", "LIKE")
                           /\ q.params[first + m] = TextV(<<"%">> \o k[m] \o <<"%">>)
               /\ kept = {} => q.sql = NoStatement /\ q.res.status = 400
               /\ (Responded(r) /\ q.res.status = 200) => q.res.keywords = k

\* C15 witness: a text of two keywords, the first with a leading blank, was
\* answered with the two keywords trimmed and in their order
C15_Witness ==
    \E r \in 1..NReq :
        /\ Responded(r) /\ req[r].ep = "search" /\ req[r].res.status = 200
        /\ req[r].in.keyword = KeywordString(<<" ", "b", ",", "a">>)
        /\ req[r].res.keywords = <<<<"b">>, <<"a">>>>

(***************************************************************************)
(* SpecPath: NReq requests, with and without a db query parameter, under   *)
(* no DB_PATH, a relative one and an absolute one, the file at the         *)
(* resolved path missing or there.                                         *)
(***************************************************************************)
InitPath ==
    /\ now = 200000
    /\ env \in {<<>>, <<"d">>, <<"/", "e">>}
    /\ \/ dbExists = FALSE /\ tables = {} /\ messages = <<>>
       \/ dbExists = TRUE /\ tables = {danmaku_messages}
          /\ messages = SampleMessages(200000)
    /\ req = IdleRequests
    /\ conn = <<>>
    /\ dash = DashInit

NextPath ==
    \/ \E r \in 1..NReq :
          /\ req[r].pc = "idle"
          /\ \E db \in {Absent, Given(<<"/", "x">>)} :
                \/ GetWithDb(r, "tables", NoInputs, db)
                \/ GetWithDb(r, "recent", [NoInputs EXCEPT !.roomId = Given(R1)], db)
    \/ \E r \in 1..NReq : StatementDone(r)
    \/ \E r \in 1..NReq : Resume(r)
    \/ \E c \in 1..Len(conn) : CloseDone(c)

SpecPath == InitPath /\ [][NextPath]_vars

HoursInputs ==
    {Absent} \cup {Given(x) : x \in TextsUpTo({"0", "1", "2", "9", "-", " ", "a"},
                                              MaxHoursLen)}

InitHours ==
    /\ now = 200000
    /\ env = <<>>
    /\ dbExists = TRUE
    /\ tables = {danmaku_messages}
    /\ messages = SampleMessages(200000)
    /\ req = IdleRequests
    /\ conn = <<>>
    /\ dash = DashInit

NextHours ==
    \/ /\ req[1].pc = "idle"
       /\ \E hours \in HoursInputs, limit \in {Absent, Given(<<"1">>)} :
            GetTopUsers(1, limit, hours)
    \/ StatementDone(1)
    \/ Resume(1)
    \/ \E c \in 1..Len(conn) : CloseDone(c)

SpecHours == InitHours /\ [][NextHours]_vars

\* C17: the hours of top-users are 24 when the parameter is absent,
\* non-numeric or <= 0 and the parsed integer otherwise, however large; the
\* cutoff bound to the statement is now - hours*3600 and the response's
\* sinceHours is that number of hours.
C17_HoursNormalized ==
    \A r \in 1..NReq :
        (req[r].pc # "idle" /\ req[r].ep = "top-users")
        => LET q == req[r]
               raw == q.in.hours
               parsed == ParseInt(raw.v)
           IN  /\ (~raw.present \/ ~IsNumeric(raw.v)) => q.hours = 24
               /\ (raw.present /\ IsNumeric(raw.v) /\ parsed.v <= 0) => q.hours = 24
               /\ (raw.present /\ IsNumeric(raw.v) /\ parsed.v > 0) => q.hours = parsed.v
               /\ q.hours > 0
               /\ q.params[1] = IntV(now - q.hours * 3600)
               /\ Responded(r)
                  => q.res.status = 200 /\ q.res.sinceHours = q.hours

\* C17 witness: hours=99 was answered with sinceHours 99 and a cutoff 99
\* hours before now
C17_Witness ==
    \E r \in 1..NReq :
        /\ Responded(r) /\ req[r].ep = "top-users"
        /\ req[r].in.hours = Given(<<"9", "9">>)
        /\ req[r].res.sinceHours = 99
        /\ req[r].params[1] = IntV(now - 99 * 3600)

(***************************************************************************)
(* Claims about the row limit.                                             *)
(***************************************************************************)
\* C18: every statement that returns rows of a table has a row limit that
\* is a positive integer: the bound limit of the message statements, and in
\* the table dump, for every limit and offset of the request, a LIMIT that
\* is a positive integer and an OFFSET that is a non-negative integer, 100
\* and 0 when the parameters are absent.
C18_RowLimitAlways ==
    \A r \in 1..NReq :
        LET q == req[r]
            d == ParseDump(q.sql.text)
        IN  /\ q.sql.shape \in {"select", "topUsers"}
               => /\ HasLimitPlaceholder(q.sql)
                  /\ q.params # <<>>
                  /\ q.params[Len(q.params)].t = "int"
                  /\ q.params[Len(q.params)].n >= 1
            /\ q.sql.shape = "dump"
               => /\ IsIntText(d.limitText) /\ ParseInt(d.limitText).v >= 1
                  /\ IsIntText(d.offsetText) /\ ParseInt(d.offsetText).v >= 0
                  /\ ~Truthy(q.in.limit) => d.limitText = <<"1", "0", "0">>
                  /\ ~Truthy(q.in.offset) => d.offsetText = <<"0">>

(***************************************************************************)
(* Claims about the bound parameters.                                      *)
(***************************************************************************)
\* the predicates of a statement in the order of their placeholders
Predicates(stmt) == stmt.conj \o stmt.disj

\* C19: a statement has as many placeholders as bound parameters, and the
\* parameters are in the order of the placeholders: recent the room id, if
\* supplied, then the limit; by-user the identifier or the name pattern,
\* then the limit; search the room id, if supplied, then one pattern per
\* keyword in the keywords' order, then the limit; top-users the cutoff,
\* then the limit.
C19_ParamsMatchPlaceholders ==
    \A r \in 1..NReq :
        (req[r].sql # NoStatement)
        => LET q == req[r]
               in == q.in
               limit == IntV(q.limit)
               room == IF Truthy(in.roomId) THEN <<TextV(in.roomId.v)>> ELSE <<>>
               roomTerm == IF Truthy(in.roomId) THEN <<Term("room_id", "=")>> ELSE <<>>
               patterns == [m \in 1..Len(q.keywords) |->
                               TextV(<<"%">> \o q.keywords[m] \o <<"%">>)]
               likes == [m \in 1..Len(q.keywords) |-> Term("msg", "LIKE")]
               window == <<Term(buildTimestampOrderClause, ">=")>>
           IN  /\ Placeholders(q.sql) = Len(q.params)
               /\ q.ep = "recent"
                  => /\ Predicates(q.sql) = roomTerm
                     /\ q.params = room \o <<limit>>
               /\ (q.ep = "by-user" /\ Truthy(in.openId))
                  => /\ Predicates(q.sql) = <<Term("open_id", "=")>>
                     /\ q.params = <<TextV(in.openId.v), limit>>
               /\ (q.ep = "by-user" /\ ~Truthy(in.openId))
                  => /\ Predicates(q.sql) = <<Term("uname", "LIKE")>>
                     /\ q.params = <<TextV(<<"%">> \o in.uname.v \o <<"%">>), limit>>
               /\ q.ep = "search"
                  => /\ Predicates(q.sql) = roomTerm \o likes
                     /\ q.params = room \o patterns \o <<limit>>
               /\ q.ep = "top-users"
                  => /\ Predicates(q.sql) = window
                     /\ q.params = <<IntV(now - q.hours * 3600), limit>>
               /\ q.ep = "unique-users-24h"
                  => /\ Predicates(q.sql) = window
                     /\ q.params = <<IntV(now - 24 * 3600)>>
               /\ q.ep \in {"tables", "table", "history-count", "unique-users"}
                  => Predicates(q.sql) = <<>> /\ q.params = <<>>

\* C19 witness: a search with a room id and two keywords was answered, its
\* four parameters behind the four placeholders
C19_Witness ==
    \E r \in 1..NReq :
        /\ Responded(r) /\ req[r].ep = "search" /\ req[r].res.status = 200
        /\ Truthy(req[r].in.roomId)
        /\ Len(req[r].keywords) = 2
        /\ Len(req[r].params) = 4
        /\ Placeholders(req[r].sql) = 4

(***************************************************************************)
(* SpecDashboard: the dashboard mounted, unmounted and mounted again, with *)
(* timer ticks and Refresh clicks at any moment and every request of a     *)
(* fetch answered or failing in any order.                                 *)
(***************************************************************************)
InitDashboard ==
    /\ now = 200000
    /\ env = <<>>
    /\ dbExists = TRUE
    /\ tables = {danmaku_messages}
    /\ messages = SampleMessages(200000)
    /\ req = IdleRequests
    /\ conn = <<>>
    /\ dash = DashInit

NextDashboard ==
    \/ DashMount
    \/ DashUnmount
    \/ DashTick
    \/ DashRefresh
    \/ \E i \in 1..Len(dash.runs), url \in DashboardUrls, ok \in BOOLEAN :
            DashResponse(i, url, ok)

SpecDashboard == InitDashboard /\ [][NextDashboard]_vars

\* the fetches in flight: the runs that have not run to their end
InFlight(d) == {i \in 1..Len(d.runs) : ~d.runs[i].settled}

\* the lock is held exactly while a fetch is in flight, and one at most is
SingleFlight(d) ==
    /\ Cardinality(InFlight(d)) <= 1
    /\ d.fetchLockRef <=> InFlight(d) # {}

\* C20: whatever the order of timer ticks, Refresh clicks, mounts, unmounts
\* and answers, at most one dashboard fetch is in flight and the lock is
\* held exactly while one is; a call under the lock starts nothing and
\* leaves the lock held; a call that starts a fetch found the lock free; and
\* the end of a fetch, by success or failure, mounted or not, leaves the
\* lock free.
C20_SingleFlight ==
    [][/\ SingleFlight(dash) /\ SingleFlight(dash')
       /\ (dash'.lastCall = "skipped" /\ dash.lastCall # "skipped")
          => /\ dash.fetchLockRef /\ dash'.fetchLockRef
             /\ dash'.runs = dash.runs /\ dash'.started = dash.started
             /\ InFlight(dash') = InFlight(dash)
       /\ dash'.started # dash.started
          => /\ ~dash.fetchLockRef /\ dash'.fetchLockRef
             /\ dash'.started = dash.started + 1
             /\ Len(dash'.runs) = Len(dash.runs) + 1
             /\ Cardinality(InFlight(dash')) = 1
       /\ Cardinality(InFlight(dash')) < Cardinality(InFlight(dash))
          => ~dash'.fetchLockRef /\ InFlight(dash') = {}]_vars

\* C20 witness: a first fetch ended without an update (it failed, or the
\* component was unmounted), the component was mounted again, a second
\* fetch is in flight and a call under its lock returned
C20_Witness ==
    /\ dash.started = 2
    /\ dash.mounts = 2
    /\ dash.lastUpdated = 0
    /\ dash.fetchLockRef
    /\ dash.lastCall = "skipped"

(***************************************************************************)
(* Claims about what the dashboard displays.                               *)
(***************************************************************************)
\* the five values of a refresh
Data(d) == <<d.topUsers, d.sinceHours, d.recentMessages, d.totalMessages,
             d.lastUpdated>>

\* C21: the five values of the dashboard change only at the end of a fetch
\* whose three requests all succeeded, and then all five together to the
\* values of that fetch; at the end of a fetch with a failed request the
\* five stay as they were and error becomes the message of the failure; at
\* the end of a fetch that finds the component unmounted neither the five
\* values nor error nor isFetching change.
C21_RefreshAllOrNothing ==
    [][LET ends == Cardinality(InFlight(dash')) < Cardinality(InFlight(dash))
           mounted == dash.isMountedRef
           fresh == dash'.last.id
       IN  /\ Data(dash') # Data(dash)
              => /\ ends /\ mounted
                 /\ dash'.last.result = "fulfilled"
           /\ (ends /\ mounted /\ dash'.last.result = "fulfilled")
              => /\ Data(dash') = <<fresh, fresh, fresh, fresh, fresh>>
                 /\ fresh # dash.lastUpdated
                 /\ dash'.error = dash.error
           /\ (ends /\ mounted /\ dash'.last.result = "rejected")
              => /\ Data(dash') = Data(dash)
                 /\ dash'.error = dash'.last.reason
                 /\ dash'.error # <<>>
           /\ (ends /\ ~mounted)
              => /\ Data(dash') = Data(dash)
                 /\ dash'.error = dash.error
                 /\ dash'.isFetching = dash.isFetching]_vars

\* C21 witness: the first fetch updated the five values, the second failed
\* while mounted: the values of the first are still on display, with the
\* message of the failure
C21_Witness ==
    /\ dash.last = [id |-> 2, result |-> "rejected", reason |-> FetchError(RecentUrl)]
    /\ dash.isMountedRef
    /\ Data(dash) = <<1, 1, 1, 1, 1>>
    /\ dash.error = FetchError(RecentUrl)
    /\ ~dash.isFetching

====
